---------------------------- MODULE Spec2Model ----------------------------
(***************************************************************************)
(* Model of nextjs/src/lib/config.ts: the environment-driven endpoint      *)
(* configuration built once at module load (createEndpointConfig), the     *)
(* endpoint resolution (getEndpointForPath) and the computation of the     *)
(* authentication headers (getAuthHeaders) against the google-auth-library *)
(* client, whose answers are nondeterministic.                             *)
(*                                                                         *)
(* JavaScript strings that the code inspects or concatenates into URLs are *)
(* sequences of one-character strings, so that the regular expression of   *)
(* getAgentEngineSessionsUrl is computed character by character.  Header   *)
(* values, tokens and error messages, which the code only concatenates,    *)
(* are TLA+ strings.                                                       *)
(***************************************************************************)
EXTENDS Integers, Sequences, FiniteSets, TLC

VARIABLES
    env,             \* process.env: variable name -> string | undefined
    moduleState,     \* "unloaded" | "loaded" | "failed": evaluation of the module body
    loadError,       \* message of the error thrown by the module body, "" if none
    endpointConfig,  \* the exported const endpointConfig
    lastEndpoint,    \* outcome of the latest getEndpointForPath call
    calls,           \* getAuthHeaders invocations: id -> activation record
    sdk              \* what the google-auth-library client has been asked so far

vars == <<env, moduleState, loadError, endpointConfig, lastEndpoint, calls, sdk>>

----------------------------------------------------------------------------
(* Bounds of the model *)

\* paths handed to getEndpointForPath have at most this many characters
MaxPathLen == 1

\* number of getAuthHeaders invocations, which may overlap
MaxCalls == 2

----------------------------------------------------------------------------
(* JavaScript values: string | undefined *)

Undefined == [def |-> FALSE, str |-> <<>>]

Str(s) == [def |-> TRUE, str |-> s]

\* ToBoolean of a string | undefined: undefined and "" are falsy
Truthy(v) == v.def /\ v.str # <<>>

\* a || b
Or(a, b) == IF Truthy(a) THEN a ELSE b

\* a function returning normally with value v / throwing new Error(m)
Return(v) == [throws |-> FALSE, value |-> v, message |-> ""]

Throw(m) == [throws |-> TRUE, value |-> Undefined, message |-> m]

----------------------------------------------------------------------------
(* String literals of config.ts *)

\* "http://127.0.0.1:8000"
DefaultBackendUrl == <<"h", "t", "t", "p", ":", "/", "/", "1", "2", "7", ".", "0", ".", "0", ".", "1", ":", "8", "0", "0", "0">>

\* https:\/\/
HttpsSlashSlash == <<"h", "t", "t", "p", "s", ":", "/", "/">>

\* \/v1\/
SlashV1Slash == <<"/", "v", "1", "/">>

\* projects\/
ProjectsSlash == <<"p", "r", "o", "j", "e", "c", "t", "s", "/">>

\* \/locations\/
SlashLocationsSlash == <<"/", "l", "o", "c", "a", "t", "i", "o", "n", "s", "/">>

\* \/reasoningEngines\/
SlashReasoningEnginesSlash == <<"/", "r", "e", "a", "s", "o", "n", "i", "n", "g", "E", "n", "g", "i", "n", "e", "s", "/">>

\* "/v1beta1/"
SlashV1beta1Slash == <<"/", "v", "1", "b", "e", "t", "a", "1", "/">>

\* "/sessions"
SlashSessions == <<"/", "s", "e", "s", "s", "i", "o", "n", "s">>

\* ":streamQuery"
ColonStreamQuery == <<":", "s", "t", "r", "e", "a", "m", "Q", "u", "e", "r", "y">>

\* ":query"
ColonQuery == <<":", "q", "u", "e", "r", "y">>

MsgEndpointMustBeSet == "AGENT_ENGINE_ENDPOINT must be set for Agent Engine deployment"

MsgNoSessionsUrl == "Could not construct sessions API URL"

MsgNoAccessToken == "No access token returned from GoogleAuth"

MsgAuthFailedPrefix == "Authentication failed: "

----------------------------------------------------------------------------
(* The environment variables config.ts reads.  NODE_ENV and                *)
(* GOOGLE_CLOUD_WORKLOAD_PROVIDER only gate console output and are left    *)
(* out.                                                                    *)

EnvVars ==
    {"GOOGLE_CLOUD_PROJECT", "K_SERVICE", "FUNCTION_NAME", "AGENT_ENGINE_ENDPOINT",
     "CLOUD_RUN_SERVICE", "CLOUD_RUN_SERVICE_URL", "BACKEND_URL"}

----------------------------------------------------------------------------
(* createEndpointConfig and what it calls, as functions of process.env *)

detectEnvironment(e) ==
    IF Truthy(e["GOOGLE_CLOUD_PROJECT"]) \/ Truthy(e["K_SERVICE"]) \/ Truthy(e["FUNCTION_NAME"])
    THEN "cloud"
    ELSE "local"

\* variant: the container signals are tested before the endpoint
detectDeploymentType_AgentEngineLast(e) ==
    IF Truthy(e["K_SERVICE"]) \/ Truthy(e["CLOUD_RUN_SERVICE"]) THEN "cloud_run"
    ELSE IF Truthy(e["AGENT_ENGINE_ENDPOINT"]) THEN "agent_engine"
    ELSE "local"

detectDeploymentType(e) ==
    IF Truthy(e["AGENT_ENGINE_ENDPOINT"]) THEN "agent_engine"
    ELSE IF Truthy(e["K_SERVICE"]) \/ Truthy(e["CLOUD_RUN_SERVICE"]) THEN "cloud_run"
    ELSE "local"

\* variant: cloud_run does not look at CLOUD_RUN_SERVICE_URL
getBackendUrl_SkipServiceUrl(e) ==
    LET deploymentType == detectDeploymentType(e) IN
    CASE deploymentType = "agent_engine" ->
            IF Truthy(e["AGENT_ENGINE_ENDPOINT"])
            THEN Return(e["AGENT_ENGINE_ENDPOINT"])
            ELSE Throw(MsgEndpointMustBeSet)
      [] OTHER ->
            Return(Or(e["BACKEND_URL"], Str(DefaultBackendUrl)))

\* a ?? b
Nullish(a, b) == IF a.def THEN a ELSE b

\* variant: the fallbacks are taken only for unset variables (?? for ||)
getBackendUrl_Nullish(e) ==
    LET deploymentType == detectDeploymentType(e) IN
    CASE deploymentType = "agent_engine" ->
            IF Truthy(e["AGENT_ENGINE_ENDPOINT"])
            THEN Return(e["AGENT_ENGINE_ENDPOINT"])
            ELSE Throw(MsgEndpointMustBeSet)
      [] deploymentType = "cloud_run" ->
            IF e["CLOUD_RUN_SERVICE_URL"].def
            THEN Return(e["CLOUD_RUN_SERVICE_URL"])
            ELSE Return(Nullish(e["BACKEND_URL"], Str(DefaultBackendUrl)))
      [] OTHER ->
            Return(Nullish(e["BACKEND_URL"], Str(DefaultBackendUrl)))

getBackendUrl(e) ==
    LET deploymentType == detectDeploymentType(e) IN
    CASE deploymentType = "agent_engine" ->
            IF Truthy(e["AGENT_ENGINE_ENDPOINT"])
            THEN Return(e["AGENT_ENGINE_ENDPOINT"])
            ELSE Throw(MsgEndpointMustBeSet)
      [] deploymentType = "cloud_run" ->
            IF Truthy(e["CLOUD_RUN_SERVICE_URL"])
            THEN Return(e["CLOUD_RUN_SERVICE_URL"])
            ELSE Return(Or(e["BACKEND_URL"], Str(DefaultBackendUrl)))
      [] OTHER ->
            Return(Or(e["BACKEND_URL"], Str(DefaultBackendUrl)))

\* variant: the endpoint is never copied into the config
getAgentEngineUrl_Never(e) == Undefined

getAgentEngineUrl(e) == Or(e["AGENT_ENGINE_ENDPOINT"], Undefined)

\* the object literal evaluates getBackendUrl() first: its throw leaves the
\* module without a config
createEndpointConfig(e) ==
    LET environment == detectEnvironment(e)
        deploymentType == detectDeploymentType(e)
        backend == getBackendUrl(e)
    IN  IF backend.throws
        THEN Throw(backend.message)
        ELSE Return([backendUrl |-> backend.value,
                     agentEngineUrl |-> getAgentEngineUrl(e),
                     environment |-> environment,
                     deploymentType |-> deploymentType])

\* endpointConfig before the module body has run (and after it threw)
NoConfig ==
    [backendUrl |-> Undefined, agentEngineUrl |-> Undefined,
     environment |-> "uninitialized", deploymentType |-> "uninitialized"]


----------------------------------------------------------------------------
(* The regular expression of getAgentEngineSessionsUrl,                    *)
(*   ^(https:\/\/[^\/]+)\/v1\/(projects\/[^\/]+\/locations\/[^\/]+\/reasoningEngines\/[^\/]+)  *)
(* matched from position 1 (the ^), element by element.  Every [^\/]+ is   *)
(* followed by a literal that starts with "/" or ends the pattern, so the  *)
(* greedy run is the only run that can match and no backtracking is lost.  *)
(* A position is an index into the string; 0 stands for "no match".        *)

\* the position after the longest run of characters other than "/" from i
RECURSIVE SkipNonSlash(_, _)
SkipNonSlash(s, i) ==
    IF i <= Len(s) /\ s[i] # "/" THEN SkipNonSlash(s, i + 1) ELSE i

\* a literal at position i: the position after it
MatchLiteral(s, i, lit) ==
    IF i > 0 /\ i + Len(lit) - 1 <= Len(s) /\ SubSeq(s, i, i + Len(lit) - 1) = lit
    THEN i + Len(lit)
    ELSE 0

\* [^\/]+ at position i: the position after it
MatchSegment(s, i) ==
    IF i > 0 /\ SkipNonSlash(s, i) > i THEN SkipNonSlash(s, i) ELSE 0

\* String.prototype.match with the pattern: null, or the two capture groups
MatchSessionsPattern(s) ==
    LET hostStart == MatchLiteral(s, 1, HttpsSlashSlash)
        hostEnd   == MatchSegment(s, hostStart)
        verEnd    == MatchLiteral(s, hostEnd, SlashV1Slash)
        projStart == MatchLiteral(s, verEnd, ProjectsSlash)
        projEnd   == MatchSegment(s, projStart)
        locStart  == MatchLiteral(s, projEnd, SlashLocationsSlash)
        locEnd    == MatchSegment(s, locStart)
        engStart  == MatchLiteral(s, locEnd, SlashReasoningEnginesSlash)
        engEnd    == MatchSegment(s, engStart)
    IN  IF engEnd = 0
        THEN [matched |-> FALSE, baseUrl |-> <<>>, projectPath |-> <<>>]
        ELSE [matched |-> TRUE,
              baseUrl |-> SubSeq(s, 1, hostEnd - 1),
              projectPath |-> SubSeq(s, verEnd, engEnd - 1)]

----------------------------------------------------------------------------
(* Endpoint resolution, as functions of the loaded endpointConfig *)

\* `${v}` of a string | undefined
Template(v) ==
    IF v.def THEN v.str ELSE <<"u", "n", "d", "e", "f", "i", "n", "e", "d">>

shouldUseAgentEngine(cfg) ==
    cfg.deploymentType = "agent_engine" /\ Truthy(cfg.agentEngineUrl)

\* variant: the API version of the configured URL is kept
getAgentEngineSessionsUrl_KeepVersion(cfg) ==
    IF ~Truthy(cfg.agentEngineUrl)
    THEN Undefined
    ELSE LET urlParts == MatchSessionsPattern(cfg.agentEngineUrl.str) IN
         IF ~urlParts.matched
         THEN Undefined
         ELSE Str(urlParts.baseUrl \o SlashV1Slash \o urlParts.projectPath)

getAgentEngineSessionsUrl(cfg) ==
    IF ~Truthy(cfg.agentEngineUrl)
    THEN Undefined
    ELSE LET urlParts == MatchSessionsPattern(cfg.agentEngineUrl.str) IN
         IF ~urlParts.matched
         THEN Undefined
         ELSE Str(urlParts.baseUrl \o SlashV1beta1Slash \o urlParts.projectPath)

AgentEngineEndpointType == {"query", "streamQuery", "sessions"}

\* variant: an unusable sessions URL falls through to the backend URL
getEndpointForPath_SessionsFallBack(cfg, path, endpointType) ==
    IF shouldUseAgentEngine(cfg) /\ endpointType = "streamQuery"
    THEN Return(Str(Template(cfg.agentEngineUrl) \o ColonStreamQuery))
    ELSE IF shouldUseAgentEngine(cfg) /\ endpointType = "query"
    THEN Return(Str(Template(cfg.agentEngineUrl) \o ColonQuery))
    ELSE IF shouldUseAgentEngine(cfg) /\ endpointType = "sessions"
            /\ Truthy(getAgentEngineSessionsUrl(cfg))
    THEN Return(Str(Template(getAgentEngineSessionsUrl(cfg)) \o SlashSessions \o path))
    ELSE Return(Str(Template(cfg.backendUrl) \o path))

\* variant: the suffixes are built without asking shouldUseAgentEngine()
getEndpointForPath_SuffixAlways(cfg, path, endpointType) ==
    IF endpointType = "streamQuery"
    THEN Return(Str(Template(cfg.backendUrl) \o ColonStreamQuery))
    ELSE IF endpointType = "query"
    THEN Return(Str(Template(cfg.backendUrl) \o ColonQuery))
    ELSE Return(Str(Template(cfg.backendUrl) \o path))

getEndpointForPath(cfg, path, endpointType) ==
    IF shouldUseAgentEngine(cfg) /\ endpointType = "streamQuery"
    THEN Return(Str(Template(cfg.agentEngineUrl) \o ColonStreamQuery))
    ELSE IF shouldUseAgentEngine(cfg) /\ endpointType = "query"
    THEN Return(Str(Template(cfg.agentEngineUrl) \o ColonQuery))
    ELSE IF shouldUseAgentEngine(cfg) /\ endpointType = "sessions"
    THEN LET sessionsUrl == getAgentEngineSessionsUrl(cfg) IN
         IF ~Truthy(sessionsUrl)
         THEN Throw(MsgNoSessionsUrl)
         ELSE Return(Str(Template(sessionsUrl) \o SlashSessions \o path))
    ELSE Return(Str(Template(cfg.backendUrl) \o path))

\* variant: an omitted endpointType means "query"
DefaultEndpointType_Query == "query"

\* endpointType: AgentEngineEndpointType = "streamQuery"
DefaultEndpointType == "streamQuery"

getAgentEngineStreamEndpoint(cfg) == getEndpointForPath(cfg, <<>>, "streamQuery")

----------------------------------------------------------------------------
(* Inputs: values of the environment variables and paths *)

\* segs[1] sep segs[2] sep ... : Array.prototype.join
RECURSIVE Join(_, _)
Join(segs, sep) ==
    IF Len(segs) = 0 THEN <<>>
    ELSE IF Len(segs) = 1 THEN segs[1]
    ELSE segs[1] \o sep \o Join(Tail(segs), sep)

SegHttps == <<"h", "t", "t", "p", "s", ":">>
SegHttp == <<"h", "t", "t", "p", ":">>
SegV1 == <<"v", "1">>
SegV1beta1 == <<"v", "1", "b", "e", "t", "a", "1">>
SegProjects == <<"p", "r", "o", "j", "e", "c", "t", "s">>
SegLocations == <<"l", "o", "c", "a", "t", "i", "o", "n", "s">>
SegReasoningEngines == <<"r", "e", "a", "s", "o", "n", "i", "n", "g", "E", "n", "g", "i", "n", "e", "s">>
SegSessions == <<"s", "e", "s", "s", "i", "o", "n", "s">>

\* <scheme>//<host>/<version>/projects/<p>/locations/<l>/reasoningEngines/<id>
EngineUrl(scheme, host, version, p, l, id) ==
    Join(<<scheme, <<>>, host, version, SegProjects, p, SegLocations, l,
           SegReasoningEngines, id>>, <<"/">>)

\* values of AGENT_ENGINE_ENDPOINT: two URLs of the expected shape, and URLs
\* with another scheme, another API version, a missing or an empty segment,
\* a trailing segment, a trailing slash, and no URL at all
AgentEngineEndpointValues ==
    { EngineUrl(SegHttps, <<"x">>, SegV1, <<"p">>, <<"l">>, <<"e">>),
      EngineUrl(SegHttps, <<"a", ".", "b">>, SegV1, <<"p", "2">>, <<"l">>, <<"7", "7">>),
      EngineUrl(SegHttp, <<"x">>, SegV1, <<"p">>, <<"l">>, <<"e">>),
      EngineUrl(SegHttps, <<"x">>, SegV1beta1, <<"p">>, <<"l">>, <<"e">>),
      Join(<<SegHttps, <<>>, <<"x">>, SegV1, SegProjects, <<"p">>,
             SegReasoningEngines, <<"e">>>>, <<"/">>),
      EngineUrl(SegHttps, <<"x">>, SegV1, <<>>, <<"l">>, <<"e">>),
      EngineUrl(SegHttps, <<"x">>, SegV1, <<"p">>, <<"l">>, <<"e">>) \o <<"/", "q">>,
      EngineUrl(SegHttps, <<"x">>, SegV1, <<"p">>, <<"l">>, <<>>),
      <<"x">> }

\* values of the variables that are only tested for truthiness
FlagValues == {Undefined, Str(<<>>), Str(<<"1">>)}

\* values of CLOUD_RUN_SERVICE_URL and of BACKEND_URL
ServiceUrlValues == {Undefined, Str(<<>>), Str(SegHttps \o <<"/", "/", "r">>)}

BackendUrlValues == {Undefined, Str(<<>>), Str(SegHttp \o <<"/", "/", "b">>)}

MkEnv(project, kService, functionName, agentEngine, cloudRunService, serviceUrl, backend) ==
    [v \in EnvVars |->
        CASE v = "GOOGLE_CLOUD_PROJECT"  -> project
          [] v = "K_SERVICE"             -> kService
          [] v = "FUNCTION_NAME"         -> functionName
          [] v = "AGENT_ENGINE_ENDPOINT" -> agentEngine
          [] v = "CLOUD_RUN_SERVICE"     -> cloudRunService
          [] v = "CLOUD_RUN_SERVICE_URL" -> serviceUrl
          [] v = "BACKEND_URL"           -> backend]

AgentEngineEndpointSettings ==
    {Undefined, Str(<<>>)} \cup {Str(u) : u \in AgentEngineEndpointValues}

Environments ==
    { MkEnv(project, kService, functionName, agentEngine, cloudRunService, serviceUrl, backend) :
        project \in FlagValues, kService \in FlagValues, functionName \in FlagValues,
        agentEngine \in AgentEngineEndpointSettings, cloudRunService \in FlagValues,
        serviceUrl \in ServiceUrlValues, backend \in BackendUrlValues }

\* the environments of the runs that follow getAuthHeaders: one of each
\* deployment type, the endpoint unset, empty or set
AuthEnvironments ==
    { MkEnv(Undefined, kService, Undefined, agentEngine, Undefined, Undefined, Undefined) :
        kService \in {Undefined, Str(<<"1">>)},
        agentEngine \in {Undefined, Str(<<>>),
                         Str(EngineUrl(SegHttps, <<"x">>, SegV1, <<"p">>, <<"l">>, <<"e">>))} }

\* the environments of the runs that follow the endpoint functions: every
\* setting of the endpoint, with and without a container signal and URLs
EndpointEnvironments ==
    { MkEnv(Undefined, kService, Undefined, agentEngine, Undefined, serviceUrl, backend) :
        kService \in {Undefined, Str(<<"1">>)},
        agentEngine \in AgentEngineEndpointSettings,
        serviceUrl \in {Undefined, Str(SegHttps \o <<"/", "/", "r">>)},
        backend \in BackendUrlValues }

\* the environments of the runs in which process.env is changed after the
\* module has loaded, and the values it is changed to
FrameSettings(var) ==
    CASE var = "AGENT_ENGINE_ENDPOINT" ->
            {Undefined,
             Str(EngineUrl(SegHttps, <<"x">>, SegV1, <<"p">>, <<"l">>, <<"e">>)),
             Str(EngineUrl(SegHttps, <<"a", ".", "b">>, SegV1, <<"p", "2">>, <<"l">>, <<"7", "7">>))}
      [] var = "K_SERVICE" -> {Undefined, Str(<<"1">>)}
      [] var = "BACKEND_URL" -> {Undefined, Str(SegHttp \o <<"/", "/", "b">>)}

FrameVars == {"AGENT_ENGINE_ENDPOINT", "K_SERVICE", "BACKEND_URL"}

FrameEnvironments ==
    { MkEnv(Undefined, kService, Undefined, agentEngine, Undefined, Undefined, backend) :
        kService \in FrameSettings("K_SERVICE"),
        agentEngine \in FrameSettings("AGENT_ENGINE_ENDPOINT"),
        backend \in FrameSettings("BACKEND_URL") }

FramePaths == {<<>>, <<"/", "s">>}

PathChars == {"/", "s"}

Paths == UNION { [1..n -> PathChars] : n \in 0..MaxPathLen }

----------------------------------------------------------------------------
(* The google-auth-library client, seen from getAuthHeaders *)

\* an access token string | undefined
NoToken == [def |-> FALSE, str |-> ""]

Token(t) == [def |-> TRUE, str |-> t]

\* what authClient.getAccessToken() resolves to: null or undefined, or an
\* object whose token is undefined, null, "" or a token
AccessTokenAnswers ==
    { [object |-> FALSE, token |-> NoToken],
      [object |-> TRUE, token |-> NoToken],
      [object |-> TRUE, token |-> Token("")],
      [object |-> TRUE, token |-> Token("ya29.A")],
      [object |-> TRUE, token |-> Token("ya29.B")] }

\* what a rejected promise carries: an Error with a message, or a value that
\* is no Error (here a string)
Causes ==
    { [isError |-> TRUE, text |-> "invalid_grant"],
      [isError |-> FALSE, text |-> "ETIMEDOUT"] }

NoCause == [isError |-> FALSE, text |-> ""]

\* error instanceof Error ? error.message : String(error)
CauseMessage(error) == error.text

\* accessToken?.token, as a condition
HasToken(accessToken) ==
    accessToken.object /\ accessToken.token.def /\ accessToken.token.str # ""

----------------------------------------------------------------------------
(* State *)

CallIds == 1..MaxCalls

NoHeaders == [k \in {} |-> ""]

\* const headers = { "Content-Type": "application/json" }
InitialHeaders == [k \in {"Content-Type"} |-> "application/json"]

\* headers[key] = value
SetHeader(headers, key, value) ==
    [k \in DOMAIN headers \cup {key} |-> IF k = key THEN value ELSE headers[k]]

\* const accessToken before its initialisation, and once the await gave a
Unassigned == [assigned |-> FALSE, object |-> FALSE, token |-> NoToken]

Assigned(a) == [assigned |-> TRUE, object |-> a.object, token |-> a.token]

\* the activation record of a getAuthHeaders invocation: where it is
\* suspended, its locals headers and accessToken, the error its catch block
\* caught, and what its promise settled with
IdleCall ==
    [pc |-> "idle", headers |-> NoHeaders, accessToken |-> Unassigned,
     caught |-> NoCause, outcome |-> "pending", result |-> NoHeaders, message |-> ""]

\* the latest call of an endpoint function: the function, its arguments
\* (endpointType "omitted" when the caller gave none) and its outcome
NoEndpoint ==
    [called |-> FALSE, operation |-> "none", path |-> <<>>, endpointType |-> "none",
     result |-> Return(Undefined)]

InitWith(envs) ==
    /\ env \in envs
    /\ moduleState = "unloaded"
    /\ loadError = ""
    /\ endpointConfig = NoConfig
    /\ lastEndpoint = NoEndpoint
    /\ calls = [c \in CallIds |-> IdleCall]
    /\ sdk = [imports |-> 0, getClient |-> 0, getAccessToken |-> 0]

InitEndpoints == InitWith(EndpointEnvironments)

InitFrame == InitWith(FrameEnvironments)

Init == InitWith(Environments)

InitAuth == InitWith(AuthEnvironments)

----------------------------------------------------------------------------
(* Actions *)

\* export const endpointConfig = createEndpointConfig(), at module load
Load ==
    /\ moduleState = "unloaded"
    /\ LET made == createEndpointConfig(env) IN
         /\ moduleState' = IF made.throws THEN "failed" ELSE "loaded"
         /\ loadError' = made.message
         /\ endpointConfig' = IF made.throws THEN NoConfig ELSE made.value
    /\ UNCHANGED <<env, lastEndpoint, calls, sdk>>

\* a caller evaluates getEndpointForPath(path, endpointType)
GetEndpointForPath(path, endpointType) ==
    /\ moduleState = "loaded"
    /\ lastEndpoint' = [called |-> TRUE, operation |-> "getEndpointForPath",
                        path |-> path, endpointType |-> endpointType,
                        result |-> getEndpointForPath(endpointConfig, path, endpointType)]
    /\ UNCHANGED <<env, moduleState, loadError, endpointConfig, calls, sdk>>

\* a caller evaluates getEndpointForPath(path): endpointType takes its default
GetEndpointForPathDefault(path) ==
    /\ moduleState = "loaded"
    /\ lastEndpoint' = [called |-> TRUE, operation |-> "getEndpointForPath",
                        path |-> path, endpointType |-> "omitted",
                        result |-> getEndpointForPath(endpointConfig, path, DefaultEndpointType)]
    /\ UNCHANGED <<env, moduleState, loadError, endpointConfig, calls, sdk>>

\* a caller evaluates getAgentEngineStreamEndpoint()
GetAgentEngineStreamEndpoint ==
    /\ moduleState = "loaded"
    /\ lastEndpoint' = [called |-> TRUE, operation |-> "getAgentEngineStreamEndpoint",
                        path |-> <<>>, endpointType |-> "omitted",
                        result |-> getAgentEngineStreamEndpoint(endpointConfig)]
    /\ UNCHANGED <<env, moduleState, loadError, endpointConfig, calls, sdk>>

----------------------------------------------------------------------------
(* getAuthHeaders: one action per stretch of code between two awaits *)

\* variant: a token is acquired in every deployment type
needsToken_Always(cfg) == TRUE

\* variant: the deployment type is derived again from process.env
needsToken_FromEnv(cfg) == detectDeploymentType(env) = "agent_engine"

\* if (endpointConfig.deploymentType === "agent_engine")
needsToken(cfg) == cfg.deploymentType = "agent_engine"

\* variant: the token without its scheme
AuthorizationValue_Bare(token) == token

\* `Bearer ${accessToken.token}`
AuthorizationValue(token) == "Bearer " \o token

\* return headers
Returned(call) ==
    [call EXCEPT !.pc = "done", !.outcome = "returned", !.result = call.headers]

\* variant: the catch block logs and lets the headers be returned
Caught_Swallowed(call, error) ==
    [call EXCEPT !.pc = "done", !.caught = error, !.outcome = "returned",
                 !.result = call.headers]

\* variant: the catch block starts the acquisition again
Caught_Retried(call, error) ==
    [call EXCEPT !.pc = "import", !.caught = error]

\* the catch block: throw new Error(`Authentication failed: ${...}`)
Caught(call, error) ==
    [call EXCEPT !.pc = "done", !.caught = error, !.outcome = "thrown",
                 !.message = MsgAuthFailedPrefix \o CauseMessage(error)]

\* the code after await authClient.getAccessToken()
GotAccessToken(call, accessToken) ==
    IF HasToken(accessToken)
    THEN Returned([call EXCEPT
            !.accessToken = Assigned(accessToken),
            !.headers = SetHeader(call.headers, "Authorization",
                                  AuthorizationValue(accessToken.token.str))])
    ELSE Caught([call EXCEPT !.accessToken = Assigned(accessToken)],
                [isError |-> TRUE, text |-> MsgNoAccessToken])

\* getAuthHeaders() is called: it runs to its first await, or to its return
Start(c) ==
    /\ moduleState = "loaded"
    /\ calls[c].pc = "idle"
    /\ LET call == [calls[c] EXCEPT !.headers = InitialHeaders] IN
         IF needsToken(endpointConfig)
         THEN /\ calls' = [calls EXCEPT ![c] = [call EXCEPT !.pc = "import"]]
              /\ sdk' = [sdk EXCEPT !.imports = @ + 1]
         ELSE /\ calls' = [calls EXCEPT ![c] = Returned(call)]
              /\ sdk' = sdk
    /\ UNCHANGED <<env, moduleState, loadError, endpointConfig, lastEndpoint>>

\* await import("google-auth-library") settles; on success new GoogleAuth(...)
\* and auth.getClient() is called
ImportSettles(c) ==
    /\ calls[c].pc = "import"
    /\ \/ /\ calls' = [calls EXCEPT ![c].pc = "getClient"]
          /\ sdk' = [sdk EXCEPT !.getClient = @ + 1]
       \/ /\ \E error \in Causes : calls' = [calls EXCEPT ![c] = Caught(calls[c], error)]
          /\ sdk' = sdk
    /\ UNCHANGED <<env, moduleState, loadError, endpointConfig, lastEndpoint>>

\* await auth.getClient() settles; on success authClient.getAccessToken() is called
GetClientSettles(c) ==
    /\ calls[c].pc = "getClient"
    /\ \/ /\ calls' = [calls EXCEPT ![c].pc = "getAccessToken"]
          /\ sdk' = [sdk EXCEPT !.getAccessToken = @ + 1]
       \/ /\ \E error \in Causes : calls' = [calls EXCEPT ![c] = Caught(calls[c], error)]
          /\ sdk' = sdk
    /\ UNCHANGED <<env, moduleState, loadError, endpointConfig, lastEndpoint>>

\* variant: the invocations share one headers object, so a token written
\* by one shows in the headers of those still in flight
GetAccessTokenSettles_SharedHeaders(c) ==
    /\ calls[c].pc = "getAccessToken"
    /\ \E accessToken \in AccessTokenAnswers :
          calls' = [d \in CallIds |->
                      IF d = c THEN GotAccessToken(calls[c], accessToken)
                      ELSE IF HasToken(accessToken) /\ calls[d].pc \notin {"idle", "done"}
                      THEN [calls[d] EXCEPT !.headers =
                              SetHeader(@, "Authorization",
                                        AuthorizationValue(accessToken.token.str))]
                      ELSE calls[d]]
    /\ UNCHANGED <<env, moduleState, loadError, endpointConfig, lastEndpoint, sdk>>

\* await authClient.getAccessToken() settles
GetAccessTokenSettles(c) ==
    /\ calls[c].pc = "getAccessToken"
    /\ \/ \E accessToken \in AccessTokenAnswers :
             calls' = [calls EXCEPT ![c] = GotAccessToken(calls[c], accessToken)]
       \/ \E error \in Causes : calls' = [calls EXCEPT ![c] = Caught(calls[c], error)]
    /\ UNCHANGED <<env, moduleState, loadError, endpointConfig, lastEndpoint, sdk>>

----------------------------------------------------------------------------
(* Specifications *)

\* module load and endpoint resolution, over every environment
Next ==
    \/ Load
    \/ \E path \in Paths, endpointType \in AgentEngineEndpointType :
          GetEndpointForPath(path, endpointType)

Spec == Init /\ [][Next]_vars

\* module load and the three ways of asking for an endpoint
NextEndpoints ==
    \/ Load
    \/ \E path \in Paths, endpointType \in AgentEngineEndpointType :
          GetEndpointForPath(path, endpointType)
    \/ \E path \in Paths : GetEndpointForPathDefault(path)
    \/ GetAgentEngineStreamEndpoint

SpecEndpoints == InitEndpoints /\ [][NextEndpoints]_vars

\* other code of the process assigns or deletes a variable of process.env
\* once the module has loaded; config.ts itself never writes process.env
SetEnv(var, value) ==
    /\ moduleState = "loaded"
    /\ env[var] # value
    /\ env' = [env EXCEPT ![var] = value]
    /\ UNCHANGED <<moduleState, loadError, endpointConfig, lastEndpoint, calls, sdk>>

\* module load, then every exported function in any order while
\* process.env changes underneath
NextFrame ==
    \/ Load
    \/ \E var \in FrameVars : \E value \in FrameSettings(var) : SetEnv(var, value)
    \/ \E path \in FramePaths, endpointType \in AgentEngineEndpointType :
          GetEndpointForPath(path, endpointType)
    \/ \E path \in FramePaths : GetEndpointForPathDefault(path)
    \/ GetAgentEngineStreamEndpoint
    \/ Start(1)
    \/ ImportSettles(1)
    \/ GetClientSettles(1)
    \/ GetAccessTokenSettles(1)

SpecFrame == InitFrame /\ [][NextFrame]_vars

\* module load and overlapping getAuthHeaders invocations
NextAuth ==
    \/ Load
    \/ \E c \in CallIds :
          \/ Start(c)
          \/ ImportSettles(c)
          \/ GetClientSettles(c)
          \/ GetAccessTokenSettles(c)

SpecAuth == InitAuth /\ [][NextAuth]_vars

----------------------------------------------------------------------------
(* Properties of the configuration built at module load.  Throughout, a    *)
(* variable is "present" when it is set to a non-empty string: the three   *)
(* cases of a variable are unset, empty (not present) and non-empty        *)
(* (present).                                                              *)

Present(value) == value.def /\ Len(value.str) > 0

AgentEnginePresent == Present(env["AGENT_ENGINE_ENDPOINT"])

ContainerPresent == Present(env["K_SERVICE"]) \/ Present(env["CLOUD_RUN_SERVICE"])

\* "http://127.0.0.1:8000", spelled apart from the model's literal
LiteralDefaultUrl ==
    Join(<<SegHttp, <<>>,
           <<"1", "2", "7", ".", "0", ".", "0", ".", "1", ":", "8", "0", "0", "0">>>>, <<"/">>)

\* C1: for every combination of AGENT_ENGINE_ENDPOINT, K_SERVICE and
\* CLOUD_RUN_SERVICE (unset, empty, non-empty) the module loads and the
\* deploymentType of its config is agent_engine exactly when
\* AGENT_ENGINE_ENDPOINT is present, cloud_run exactly when it is not and
\* K_SERVICE or CLOUD_RUN_SERVICE is, and local exactly when none is; the
\* other variables do not enter.
C1_DeploymentTypePriority ==
    moduleState # "unloaded" =>
        /\ moduleState = "loaded"
        /\ endpointConfig.deploymentType \in {"agent_engine", "cloud_run", "local"}
        /\ endpointConfig.deploymentType = "agent_engine" <=> AgentEnginePresent
        /\ endpointConfig.deploymentType = "cloud_run" <=>
              (~AgentEnginePresent /\ ContainerPresent)
        /\ endpointConfig.deploymentType = "local" <=>
              (~AgentEnginePresent /\ ~ContainerPresent)

\* the endpoint wins over both container signals, with the variables that
\* only feed `environment` and the backend URL set as well
C1_Witness ==
    /\ moduleState = "loaded"
    /\ AgentEnginePresent
    /\ Present(env["K_SERVICE"])
    /\ Present(env["CLOUD_RUN_SERVICE"])
    /\ Present(env["GOOGLE_CLOUD_PROJECT"])
    /\ Present(env["BACKEND_URL"])
    /\ endpointConfig.deploymentType = "agent_engine"

\* C2: in the loaded config, deploymentType agent_engine implies that
\* agentEngineUrl is defined and non-empty, and shouldUseAgentEngine() is
\* true exactly when deploymentType is agent_engine.
C2_AgentEngineHasUrl ==
    moduleState = "loaded" =>
        /\ endpointConfig.deploymentType = "agent_engine" =>
              /\ endpointConfig.agentEngineUrl.def
              /\ Len(endpointConfig.agentEngineUrl.str) > 0
              /\ endpointConfig.agentEngineUrl = env["AGENT_ENGINE_ENDPOINT"]
        /\ shouldUseAgentEngine(endpointConfig) <=>
              endpointConfig.deploymentType = "agent_engine"

C2_Witness ==
    /\ moduleState = "loaded"
    /\ endpointConfig.deploymentType = "agent_engine"
    /\ endpointConfig.agentEngineUrl.def
    /\ shouldUseAgentEngine(endpointConfig)

\* The module body never throws: detectDeploymentType answers agent_engine
\* only when AGENT_ENGINE_ENDPOINT is truthy, so getBackendUrl's throw is
\* never reached (the case of C3 does not occur in any environment).
LoadNeverFails == moduleState # "failed" /\ loadError = ""

\* C4: when deploymentType is cloud_run, backendUrl is the first present
\* value of CLOUD_RUN_SERVICE_URL, BACKEND_URL, "http://127.0.0.1:8000", and
\* the load did not fail.
C4_CloudRunBackendChain ==
    (moduleState # "unloaded" /\ ~AgentEnginePresent /\ ContainerPresent) =>
        /\ moduleState = "loaded"
        /\ endpointConfig.deploymentType = "cloud_run"
        /\ endpointConfig.backendUrl =
              IF Present(env["CLOUD_RUN_SERVICE_URL"]) THEN env["CLOUD_RUN_SERVICE_URL"]
              ELSE IF Present(env["BACKEND_URL"]) THEN env["BACKEND_URL"]
              ELSE Str(LiteralDefaultUrl)

\* cloud_run with the specific URL present and a generic one present too
C4_Witness ==
    /\ moduleState = "loaded"
    /\ endpointConfig.deploymentType = "cloud_run"
    /\ Present(env["CLOUD_RUN_SERVICE_URL"])
    /\ Present(env["BACKEND_URL"])
    /\ endpointConfig.backendUrl = env["CLOUD_RUN_SERVICE_URL"]
    /\ endpointConfig.backendUrl # env["BACKEND_URL"]

----------------------------------------------------------------------------
(* Properties of getAuthHeaders *)

AgentEngineMode == moduleState = "loaded" /\ endpointConfig.deploymentType = "agent_engine"

OtherMode ==
    moduleState = "loaded" /\ endpointConfig.deploymentType \in {"local", "cloud_run"}

OnlyContentType == [k \in {"Content-Type"} |-> "application/json"]

WithBearer(t) ==
    [k \in {"Content-Type", "Authorization"} |->
        IF k = "Content-Type" THEN "application/json" ELSE "Bearer " \o t]

\* C5: when deploymentType is not agent_engine, every getAuthHeaders call
\* has returned (it neither fails nor waits) the headers without an
\* Authorization key, and the google-auth-library client was never asked.
C5_NoAuthorizationOutsideAgentEngine ==
    OtherMode =>
        /\ sdk = [imports |-> 0, getClient |-> 0, getAccessToken |-> 0]
        /\ \A c \in CallIds :
              /\ "Authorization" \notin DOMAIN calls[c].headers
              /\ "Authorization" \notin DOMAIN calls[c].result
              /\ calls[c].outcome # "thrown"
              /\ calls[c].pc # "idle" =>
                    /\ calls[c].pc = "done"
                    /\ calls[c].outcome = "returned"
                    /\ calls[c].result = OnlyContentType

C5_Witness ==
    /\ OtherMode
    /\ \A c \in CallIds : calls[c].outcome = "returned"
    /\ endpointConfig.deploymentType = "cloud_run"

\* the message of what an invocation's catch block caught: that of the
\* rejection, or of the Error thrown for a missing token
FailureOf(call) ==
    IF call.accessToken.assigned
    THEN "No access token returned from GoogleAuth"
    ELSE call.caught.text

\* C6: in agent_engine mode, an invocation whose getAccessToken gave no
\* token (null, no token, an empty token), or whose import, getClient or
\* getAccessToken was rejected, has failed with "Authentication failed: "
\* followed by the cause's message, and no headers reached its caller.
C6_TokenFailureThrows ==
    AgentEngineMode =>
        \A c \in CallIds :
            (\/ /\ calls[c].accessToken.assigned
                /\ \/ ~calls[c].accessToken.object
                   \/ ~calls[c].accessToken.token.def
                   \/ calls[c].accessToken.token.str = ""
             \/ calls[c].caught \in Causes)
            => /\ calls[c].pc = "done"
               /\ calls[c].outcome = "thrown"
               /\ calls[c].message = "Authentication failed: " \o FailureOf(calls[c])
               /\ calls[c].result = NoHeaders

\* one invocation failed on an empty token, the other on a rejection
C6_Witness ==
    /\ AgentEngineMode
    /\ \E c, d \in CallIds :
          /\ calls[c].accessToken = Assigned([object |-> TRUE, token |-> Token("")])
          /\ calls[c].message = "Authentication failed: No access token returned from GoogleAuth"
          /\ calls[d].caught \in Causes
          /\ calls[d].outcome = "thrown"
          /\ sdk.getAccessToken = 1

\* C7: in agent_engine mode an invocation whose getAccessToken gave a
\* non-empty token t has returned exactly Content-Type: application/json and
\* Authorization: "Bearer " + t; and whatever the deployment type, the
\* headers an invocation returned contain Content-Type: application/json.
C7_BearerHeaders ==
    \A c \in CallIds :
        /\ calls[c].outcome = "returned" =>
              /\ "Content-Type" \in DOMAIN calls[c].result
              /\ calls[c].result["Content-Type"] = "application/json"
        /\ (/\ AgentEngineMode
            /\ calls[c].accessToken.assigned
            /\ calls[c].accessToken.object
            /\ calls[c].accessToken.token.def
            /\ calls[c].accessToken.token.str # "")
           => /\ calls[c].outcome = "returned"
              /\ calls[c].result = WithBearer(calls[c].accessToken.token.str)
        /\ (AgentEngineMode /\ calls[c].outcome = "returned") =>
              /\ calls[c].accessToken.assigned
              /\ calls[c].result = WithBearer(calls[c].accessToken.token.str)

C7_Witness ==
    /\ AgentEngineMode
    /\ \E c \in CallIds :
          /\ calls[c].outcome = "returned"
          /\ calls[c].result = WithBearer("ya29.A")

----------------------------------------------------------------------------
(* Properties of getEndpointForPath *)

\* the pieces of s between the occurrences of "/": String.prototype.split
RECURSIVE SplitOnSlash(_, _, _)
SplitOnSlash(s, i, piece) ==
    IF i > Len(s) THEN <<piece>>
    ELSE IF s[i] = "/" THEN <<piece>> \o SplitOnSlash(s, i + 1, <<>>)
    ELSE SplitOnSlash(s, i + 1, Append(piece, s[i]))

Pieces(url) == SplitOnSlash(url, 1, <<>>)

\* the first ten pieces read
\*   https: // <host> / v1 / projects / <p> / locations / <l> / reasoningEngines / <id>
\* with non-empty <host>, <p>, <l> and <id>
StartsWithShape(url) ==
    LET ps == Pieces(url) IN
    /\ Len(ps) >= 10
    /\ ps[1] = SegHttps
    /\ ps[2] = <<>>
    /\ ps[3] # <<>>
    /\ ps[4] = SegV1
    /\ ps[5] = SegProjects
    /\ ps[6] # <<>>
    /\ ps[7] = SegLocations
    /\ ps[8] # <<>>
    /\ ps[9] = SegReasoningEngines
    /\ ps[10] # <<>>

\* https://<host>/v1/projects/<p>/locations/<l>/reasoningEngines/<id>, and nothing after
HasShape(url) == StartsWithShape(url) /\ Len(Pieces(url)) = 10

\* https://<host>/v1beta1/projects/<p>/locations/<l>/reasoningEngines/<id>/sessions
SessionsUrlOf(url) ==
    LET ps == Pieces(url) IN
    Join(<<ps[1], ps[2], ps[3], SegV1beta1, ps[5], ps[6], ps[7], ps[8], ps[9], ps[10],
           SegSessions>>, <<"/">>)

SessionsCall ==
    /\ AgentEngineMode
    /\ lastEndpoint.called
    /\ lastEndpoint.endpointType = "sessions"

\* C8: in agent-engine mode with an agentEngineUrl of the shape
\* https://<host>/v1/projects/<p>/locations/<l>/reasoningEngines/<id>,
\* getEndpointForPath(path, "sessions") returns
\* https://<host>/v1beta1/projects/<p>/locations/<l>/reasoningEngines/<id>/sessions
\* followed by path.
C8_SessionsUrl ==
    (SessionsCall /\ HasShape(endpointConfig.agentEngineUrl.str)) =>
        /\ ~lastEndpoint.result.throws
        /\ lastEndpoint.result.value =
              Str(SessionsUrlOf(endpointConfig.agentEngineUrl.str) \o lastEndpoint.path)

\* the host and the identifiers have several characters, the path is not empty
C8_Witness ==
    /\ SessionsCall
    /\ HasShape(endpointConfig.agentEngineUrl.str)
    /\ Len(Pieces(endpointConfig.agentEngineUrl.str)[3]) > 1
    /\ lastEndpoint.path = <<"/">>
    /\ ~lastEndpoint.result.throws

\* C9 (amended): in agent-engine mode, when agentEngineUrl does not start
\* with a URL of the expected shape (another scheme, another API version, a
\* missing or an empty segment), getEndpointForPath(path, "sessions") throws
\* "Could not construct sessions API URL" and returns no URL.
C9_MalformedUrlThrows ==
    (SessionsCall /\ ~StartsWithShape(endpointConfig.agentEngineUrl.str)) =>
        /\ lastEndpoint.result.throws
        /\ lastEndpoint.result.message = "Could not construct sessions API URL"
        /\ lastEndpoint.result.value = Undefined

\* C9 as stated: any agentEngineUrl that is not exactly of the expected
\* shape makes getEndpointForPath(path, "sessions") throw.  The pattern is
\* anchored at the start only, so a URL that continues after <id> with a
\* further "/..." still matches and a sessions URL is returned.
C9_AsStated ==
    (SessionsCall /\ ~HasShape(endpointConfig.agentEngineUrl.str)) =>
        /\ lastEndpoint.result.throws
        /\ ~lastEndpoint.result.value.def

\* the URL is the expected one but for its API version
C9_Witness ==
    /\ SessionsCall
    /\ endpointConfig.agentEngineUrl.str =
          EngineUrl(SegHttps, <<"x">>, SegV1beta1, <<"p">>, <<"l">>, <<"e">>)
    /\ lastEndpoint.result.throws

\* C10: outside agent-engine mode getEndpointForPath(path, kind) returns
\* backendUrl followed by path for every path and every kind, and does not
\* throw.
C10_BackendConcatenation ==
    (OtherMode /\ lastEndpoint.called) =>
        /\ ~lastEndpoint.result.throws
        /\ lastEndpoint.result.value.def
        /\ lastEndpoint.result.value.str = endpointConfig.backendUrl.str \o lastEndpoint.path

\* a streamQuery call in cloud_run mode, with a path
C10_Witness ==
    /\ OtherMode
    /\ endpointConfig.deploymentType = "cloud_run"
    /\ lastEndpoint.called
    /\ lastEndpoint.endpointType = "streamQuery"
    /\ lastEndpoint.path # <<>>
    /\ lastEndpoint.result.value.str = endpointConfig.backendUrl.str \o lastEndpoint.path

----------------------------------------------------------------------------
(* Further properties of the loaded configuration *)

\* C11: in every environment in which the module loads, variables set to
\* the empty string included, backendUrl is a string and is not empty.
C11_BackendUrlNonEmpty ==
    moduleState = "loaded" =>
        /\ endpointConfig.backendUrl.def
        /\ endpointConfig.backendUrl.str # <<>>
        /\ Len(endpointConfig.backendUrl.str) >= 1

\* every URL variable is set, and set to the empty string
C11_Witness ==
    /\ moduleState = "loaded"
    /\ env["AGENT_ENGINE_ENDPOINT"] = Str(<<>>)
    /\ env["CLOUD_RUN_SERVICE_URL"] = Str(<<>>)
    /\ env["BACKEND_URL"] = Str(<<>>)
    /\ Present(env["K_SERVICE"])
    /\ endpointConfig.backendUrl = Str(LiteralDefaultUrl)

----------------------------------------------------------------------------
(* Token acquisition over several getAuthHeaders calls *)

Started == {c \in CallIds : calls[c].pc # "idle"}

\* the invocations that have called auth.getClient(), as far as their
\* records show: those waiting for it or beyond it
SeenPastImport ==
    {c \in CallIds : calls[c].pc \in {"getClient", "getAccessToken"} \/ calls[c].accessToken.assigned}

\* the invocations that have called authClient.getAccessToken(), likewise
SeenPastGetClient ==
    {c \in CallIds : calls[c].pc = "getAccessToken" \/ calls[c].accessToken.assigned}

Stages == <<"idle", "import", "getClient", "getAccessToken", "done">>

StageOf(pc) == CHOOSE i \in 1..Len(Stages) : Stages[i] = pc

Increment(cond) == IF cond THEN 1 ELSE 0

\* what a step may do to invocation c in agent_engine mode
OneAttemptStep(c) ==
    LET was == calls[c].pc
        is  == calls'[c].pc
    IN  /\ was = "done" => calls'[c] = calls[c]
        /\ is # was =>
              /\ is = "done" \/ StageOf(is) = StageOf(was) + 1
              /\ sdk'.imports = sdk.imports + Increment(is = "import")
              /\ sdk'.getClient = sdk.getClient + Increment(is = "getClient")
              /\ sdk'.getAccessToken = sdk.getAccessToken + Increment(is = "getAccessToken")
              /\ calls'[c].outcome = "returned" =>
                    /\ was = "getAccessToken"
                    /\ calls'[c].accessToken.assigned
                    /\ ~calls[c].accessToken.assigned
                    /\ calls'[c].result = WithBearer(calls'[c].accessToken.token.str)

\* C12 (amended): in agent_engine mode every getAuthHeaders call imports the
\* library once and makes at most one acquisition attempt: it only moves
\* forward through import, getClient and getAccessToken, asks each of them
\* at most once (getClient not at all when the import is rejected), never
\* starts again after a failure, and the Authorization value it returns is
\* the token its own getAccessToken gave.  After n calls the library has
\* been imported n times and getClient and getAccessToken asked at most n
\* times.
C12_OneAttemptPerCall ==
    /\ [](AgentEngineMode =>
            /\ sdk.imports = Cardinality(Started)
            /\ sdk.getAccessToken <= sdk.getClient
            /\ sdk.getClient <= sdk.imports
            /\ sdk.getClient >= Cardinality(SeenPastImport)
            /\ sdk.getAccessToken >= Cardinality(SeenPastGetClient))
    /\ [][AgentEngineMode => \A c \in CallIds : OneAttemptStep(c)]_vars

\* C12 as stated: once n calls have settled, getClient has been asked n
\* times.  A call whose import of google-auth-library is rejected settles
\* without asking getClient.
C12_AsStated ==
    (AgentEngineMode /\ \A c \in CallIds : calls[c].pc \in {"idle", "done"}) =>
        sdk.getClient = Cardinality({c \in CallIds : calls[c].pc = "done"})

\* two calls, each returning the token of its own acquisition
C12_Witness ==
    /\ AgentEngineMode
    /\ calls[1].result = WithBearer("ya29.A")
    /\ calls[2].result = WithBearer("ya29.B")
    /\ sdk = [imports |-> 2, getClient |-> 2, getAccessToken |-> 2]

----------------------------------------------------------------------------
(* The query endpoints *)

\* ":streamQuery" and ":query", spelled apart from the model's literals
SuffixStreamQuery == <<":">> \o <<"s", "t", "r", "e", "a", "m">> \o <<"Q", "u", "e", "r", "y">>

SuffixQuery == <<":">> \o <<"q", "u", "e", "r", "y">>

\* C13: in agent-engine mode getEndpointForPath(path, "streamQuery") returns
\* agentEngineUrl + ":streamQuery" and getEndpointForPath(path, "query")
\* returns agentEngineUrl + ":query", whatever the path; a call without a
\* kind is a streamQuery call, and getAgentEngineStreamEndpoint() returns
\* what getEndpointForPath("", "streamQuery") returns (outside agent-engine
\* mode that is backendUrl).
C13_QueryEndpoints ==
    (moduleState = "loaded" /\ lastEndpoint.called) =>
        LET url == endpointConfig.agentEngineUrl.str
            got == lastEndpoint.result
        IN  /\ (AgentEngineMode /\ lastEndpoint.endpointType \in {"streamQuery", "omitted"}) =>
                  /\ ~got.throws
                  /\ got.value = Str(url \o SuffixStreamQuery)
                  /\ url = env["AGENT_ENGINE_ENDPOINT"].str
            /\ (AgentEngineMode /\ lastEndpoint.endpointType = "query") =>
                  /\ ~got.throws
                  /\ got.value = Str(url \o SuffixQuery)
            /\ (OtherMode /\ lastEndpoint.operation = "getAgentEngineStreamEndpoint") =>
                  /\ ~got.throws
                  /\ got.value = endpointConfig.backendUrl

\* a call without a kind and with a path, answered with the stream endpoint
C13_Witness ==
    /\ AgentEngineMode
    /\ lastEndpoint.called
    /\ lastEndpoint.operation = "getEndpointForPath"
    /\ lastEndpoint.endpointType = "omitted"
    /\ lastEndpoint.path # <<>>
    /\ lastEndpoint.result.value =
          Str(env["AGENT_ENGINE_ENDPOINT"].str \o SuffixStreamQuery)

----------------------------------------------------------------------------
(* The configuration after the load *)

\* what an endpoint call must have answered, read off endpointConfig alone
EndpointByConfig ==
    LET url == endpointConfig.agentEngineUrl.str
        got == lastEndpoint.result
    IN  /\ OtherMode => got.value = Str(endpointConfig.backendUrl.str \o lastEndpoint.path)
        /\ (AgentEngineMode /\ lastEndpoint.endpointType \in {"streamQuery", "omitted"}) =>
              got.value = Str(url \o SuffixStreamQuery)
        /\ (AgentEngineMode /\ lastEndpoint.endpointType = "query") =>
              got.value = Str(url \o SuffixQuery)
        /\ (AgentEngineMode /\ lastEndpoint.endpointType = "sessions" /\ HasShape(url)) =>
              got.value = Str(SessionsUrlOf(url) \o lastEndpoint.path)

\* what the getAuthHeaders calls must have done, read off endpointConfig alone
HeadersByConfig ==
    /\ OtherMode =>
          /\ sdk = [imports |-> 0, getClient |-> 0, getAccessToken |-> 0]
          /\ \A c \in Started : calls[c].result = OnlyContentType
    /\ AgentEngineMode =>
          /\ sdk.imports = Cardinality(Started)
          /\ \A c \in Started :
                calls[c].outcome = "returned" =>
                    calls[c].result = WithBearer(calls[c].accessToken.token.str)

\* C14: once the module has loaded, endpointConfig never changes: no call
\* of getAuthHeaders, getEndpointForPath or getAgentEngineStreamEndpoint,
\* returning or throwing, and no change of process.env modifies a field of
\* it or reverts the load; and what these calls answer is decided by the
\* loaded config, whatever process.env says by then.
C14_ConfigFrozen ==
    /\ [][moduleState = "loaded" =>
            /\ moduleState' = "loaded"
            /\ loadError' = loadError
            /\ endpointConfig' = endpointConfig]_vars
    /\ [](moduleState = "loaded" =>
            /\ endpointConfig.deploymentType \in {"local", "agent_engine", "cloud_run"}
            /\ HeadersByConfig
            /\ lastEndpoint.called => EndpointByConfig)

\* the endpoint has been deleted from process.env after an agent_engine
\* load; a token was acquired and the stream endpoint is still the engine's
C14_Witness ==
    /\ AgentEngineMode
    /\ env["AGENT_ENGINE_ENDPOINT"] = Undefined
    /\ Present(env["BACKEND_URL"])
    /\ calls[1].result = WithBearer("ya29.A")
    /\ lastEndpoint.operation = "getAgentEngineStreamEndpoint"
    /\ lastEndpoint.result.value = Str(endpointConfig.agentEngineUrl.str \o SuffixStreamQuery)

----------------------------------------------------------------------------
(* Overlapping getAuthHeaders invocations *)

\* the headers of invocation c hold nothing but its own token
OwnHeaders(c) ==
    LET call == calls[c] IN
    /\ call.pc \in {"import", "getClient", "getAccessToken"} =>
          /\ call.headers = OnlyContentType
          /\ call.outcome = "pending"
          /\ call.result = NoHeaders
    /\ "Authorization" \in DOMAIN call.headers =>
          /\ call.accessToken.assigned
          /\ call.headers["Authorization"] = "Bearer " \o call.accessToken.token.str
    /\ call.outcome = "returned" => call.result = call.headers
    /\ call.outcome = "thrown" =>
          /\ call.result = NoHeaders
          /\ call.message = "Authentication failed: " \o FailureOf(call)

\* C15: under every interleaving of the suspension points of overlapping
\* getAuthHeaders invocations, a step of one invocation changes the record
\* of no other (its headers, its token, its outcome) and writes neither
\* endpointConfig nor process.env nor any other shared state; a settled
\* invocation stays as it settled; and each invocation's headers and result
\* carry only the token given to that invocation.
C15_InvocationsIndependent ==
    /\ [][/\ \A c, d \in CallIds :
                (c # d /\ calls'[c] # calls[c]) => calls'[d] = calls[d]
          /\ \A c \in CallIds : calls[c].pc = "done" => calls'[c] = calls[c]
          /\ calls' # calls =>
                UNCHANGED <<env, moduleState, loadError, endpointConfig, lastEndpoint>>]_vars
    /\ [](AgentEngineMode => \A c \in CallIds : OwnHeaders(c))

\* one invocation was rejected at getAccessToken while the other, started
\* as well, is still waiting there with its headers untouched
C15_Witness ==
    /\ AgentEngineMode
    /\ calls[2].outcome = "thrown"
    /\ calls[2].caught \in Causes
    /\ calls[1].pc = "getAccessToken"
    /\ calls[1].headers = OnlyContentType
    /\ sdk.getAccessToken = 2

============================================================================
